---- MODULE Spec2Model ----
(***************************************************************************)
(* The index.js patch scripts: update_pages.py, update_dashboard_v2.py,    *)
(* update_dashboard.py and remove_next.py.                                 *)
(*                                                                         *)
(* A document is a sequence of tokens; its text is the concatenation of    *)
(* the tokens.  The tokens are cut so that every literal the scripts       *)
(* search for, insert or slice at is a whole number of tokens, and so that *)
(* no literal can match across a token boundary in any other way.  The     *)
(* two characters the slice arithmetic of update_page counts (the         *)
(* backquote and the semicolon that close a template literal) are tokens   *)
(* of one character each, so an offset in tokens moves as the offset in    *)
(* characters does.  Offsets are 0-based as in Python and -1 is what       *)
(* str.find returns for an absent literal.                                 *)
(***************************************************************************)
EXTENDS Integers, Sequences, FiniteSets, TLC

VARIABLES script, file, content, pc, out, writes, run, step,
          start_idx, end_idx, original, results, history, shells

\* script    which of the four scripts is run
\* file      the text of index.js on disk
\* content   the working copy in memory
\* pc        where the script stands: read, patch, write, done; failed when
\*           the interpreter rejected the script (exit status 1)
\* out       the lines printed so far in this run, each a tuple of its parts
\* writes    how many times this run wrote index.js
\* run       the number of this run; step: the update_page call that is next
\* start_idx, end_idx    the variables of update_dashboard_v2.py; for
\*           update_pages.py, html_start and html_end of the last call
\* original  the text of index.js when this run started; results: the outcome of each target of
\*           this run, by the branch the code took; history: the input,
\*           output and outcome of the runs before this one
\* shells    the calls of generate_page_template made in this run: the
\*           arguments and the text returned
vars == <<script, file, content, pc, out, writes, run, step,
          start_idx, end_idx, original, results, history, shells>>

\* ---------------------------------------------------------------- bounds
MaxRuns == 2
MaxLen == 5
MaxHandlers == 3
MaxBlocks == 4

\* ------------------------------------------------------- Python strings
Min(S) == CHOOSE x \in S : \A y \in S : x <= y

\* s[a:b]
PySlice(s, a, b) ==
  LET hi == IF b < Len(s) THEN b ELSE Len(s)
  IN  IF a >= hi THEN <<>> ELSE SubSeq(s, a + 1, hi)

\* s[a:]
PyFrom(s, a) == PySlice(s, a, Len(s))

\* s[:b]
PyUpto(s, b) == PySlice(s, 0, b)

MatchAt(s, pat, k) ==
  /\ k + Len(pat) <= Len(s)
  /\ \A q \in 1..Len(pat) : s[k + q] = pat[q]

\* s.find(pat, from)
find(s, pat, from) ==
  LET hits == {k \in from..(Len(s) - Len(pat)) : MatchAt(s, pat, k)}
  IN  IF hits = {} THEN -1 ELSE Min(hits)

\* pat in s
contains(s, pat) == find(s, pat, 0) # -1

RECURSIVE replace(_, _, _)
\* s.replace(old, new): every non-overlapping occurrence, left to right
replace(s, old, new) ==
  LET k == find(s, old, 0)
  IN  IF k = -1 THEN s
      ELSE PyUpto(s, k) \o new \o replace(PyFrom(s, k + Len(old)), old, new)

RECURSIVE Concat(_)
Concat(blocks) ==
  IF blocks = <<>> THEN <<>> ELSE Head(blocks) \o Concat(Tail(blocks))

\* every document made of at most n blocks of the menu
Docs(menu, n) ==
  {Concat(b) : b \in UNION {[1..k -> menu] : k \in 0..n}}

\* the outcome of one target of a run: the location modes tried, in order,
\* and how it ended
Result(target, modes, status) ==
  [target |-> target, modes |-> modes, status |-> status]

\* ---------------------------------------------------- reading index.js
\* open('index.js', 'r', encoding='utf-8') reads in text mode: every \r\n
\* and every \r of the file comes in as \n.  A token that holds line breaks
\* has a second form, the same text with every line end written \r\n; the
\* pairs below give each such form and what it is read as.  No token of a
\* document starts with \n where a lone \r can stand before it, so a lone \r
\* is always a line end of its own.
NewlineForms ==
  { <<"\r\n", "\n">>,
    <<"\r", "\n">>,
    <<"\r\n  ", "\n  ">>,
    <<"\r\n  res.send(html);\r\n});\r\n", "\n  res.send(html);\n});\n">>,
    <<"crlf(old-dashboard-body)", "old-dashboard-body">>,
    <<"crlf(<!-- Dashboard Grid -->)", "<!-- Dashboard Grid -->">>,
    <<"crlf(old-bento-message)", "old-bento-message">>,
    <<"crlf(old-bento-body)", "old-bento-body">> }

\* f.read() of a file opened in text mode
universal_newlines(text) ==
  [k \in 1..Len(text) |->
     IF \E f \in NewlineForms : f[1] = text[k]
       THEN (CHOOSE f \in NewlineForms : f[1] = text[k])[2]
       ELSE text[k]]

\* ------------------------------------------------------- remove_next.py
\* Lines 2 and 3 of remove_next.py spell their string literals with doubled
\* quotes, Path(''index.js'') and encoding=''utf-8'', which is not Python:
\* the interpreter rejects the file with a SyntaxError before any line of it
\* runs, so index.js is neither read nor written (CompileFails below).
NextAnchor == <<"app.get('/next',">>

\* the documents remove_next.py is started on
NextDocs == Docs({NextAnchor, <<"{">>, <<"}">>, <<"\n">>, <<"x">>}, MaxLen)

\* ------------------------------------------------------- update_pages.py
\* the backquote that opens and closes a JavaScript template literal (one
\* character; written BQ here because the character cannot appear in a
\* string of this module)
BT == "BQ"
SC == ";"
DOCTYPE == "<!DOCTYPE html>"
HTMLCLOSE == "</html>"

\* "const html = " + backquote + "<!DOCTYPE html>"
HtmlStartLit == <<"const html = ", BT, DOCTYPE>>
\* "</html>" + backquote + ";"
HtmlEndLit == <<HTMLCLOSE, BT, SC>>

\* f"app.get('{route_path}', ensureAuthenticated, async (req, res) => {{"
route_pattern(route_path) ==
  <<"app.get('", route_path, "', ensureAuthenticated, async (req, res) => {">>

\* the navigation entries written out in the shell: route, label, icon
NavEntries ==
  << <<"/", "Dashboard", "icon-dashboard">>,
     <<"/currency-strength", "Currency Strength", "icon-currency-strength">>,
     <<"/cb-speeches", "CB Speeches", "icon-cb-speeches">>,
     <<"/weekly-calendar", "Weekly Calendar", "icon-weekly-calendar">> >>

NavEntry(e) ==
  <<"<a href=", e[1], " class=sidebar-nav-item ", "${req.path === '", e[1],
    "' ? 'active' : ''}", ">", e[3], "<span>", e[2], "</span></a>">>

RECURSIVE NavRegion(_)
NavRegion(entries) ==
  IF entries = <<>> THEN <<>> ELSE NavEntry(Head(entries)) \o NavRegion(Tail(entries))

NavEntryResolved(e, active_nav) ==
  <<"<a href=", e[1], " class=sidebar-nav-item ">>
  \o (IF e[1] = active_nav THEN <<"active">>
      ELSE <<"${req.path === '", e[1], "' ? 'active' : ''}">>)
  \o <<">", e[3], "<span>", e[2], "</span></a>">>

generate_resolving_active(page_name, page_path, page_title, active_nav, root_id, jsx_file, footer_text, extra_scripts) ==
  <<DOCTYPE, "<title>", page_title, "</title>", "<nav class=sidebar-nav>">>
  \o NavEntryResolved(NavEntries[1], active_nav) \o NavEntryResolved(NavEntries[2], active_nav)
  \o NavEntryResolved(NavEntries[3], active_nav) \o NavEntryResolved(NavEntries[4], active_nav)
  \o <<"</nav>", "<span class=breadcrumb>", page_name, "</span>",
       "<div id=", root_id, "></div>", "<footer>", footer_text, "</footer>",
       "<script src=", jsx_file, "></script>", extra_scripts, HTMLCLOSE>>

\* the page shell: the fixed text with the descriptor's fields spliced in
generate_page_template(page_name, page_path, page_title, active_nav, root_id, jsx_file, footer_text, extra_scripts) ==
  <<DOCTYPE, "<title>", page_title, "</title>", "<nav class=sidebar-nav>">>
  \o NavRegion(NavEntries)
  \o <<"</nav>", "<span class=breadcrumb>", page_name, "</span>",
       "<div id=", root_id, "></div>", "<footer>", footer_text, "</footer>",
       "<script src=", jsx_file, "></script>", extra_scripts, HTMLCLOSE>>

\* one call of generate_page_template: its arguments and what it returns
GenCall(page_name, page_path, page_title, active_nav, root_id, jsx_file, footer_text, extra_scripts) ==
  [page_name |-> page_name, page_path |-> page_path, page_title |-> page_title,
   active_nav |-> active_nav, root_id |-> root_id, jsx_file |-> jsx_file,
   footer_text |-> footer_text, extra_scripts |-> extra_scripts,
   text |-> generate_page_template(page_name, page_path, page_title, active_nav,
                                   root_id, jsx_file, footer_text, extra_scripts)]

Page(route_path, page_name, page_title, root_id, jsx_file, footer_text, extra_scripts) ==
  [route_path |-> route_path, page_name |-> page_name, page_title |-> page_title,
   root_id |-> root_id, jsx_file |-> jsx_file, footer_text |-> footer_text,
   extra_scripts |-> extra_scripts]

\* the three calls of update_page, in the order the script makes them
Pages ==
  << Page("/currency-strength", "Currency Strength", "Currency Strength - Alphalabs",
          "currency-strength-root", "/currency-strength.jsx",
          "Updated every 4 hours", ""),
     Page("/cb-speeches", "CB Speeches", "CB Speeches & Analysis - Alphalabs",
          "cb-speech-root", "/cb-speech-analysis.jsx",
          "Updated on demand", "<script>cbroot.render(CBSpeechAnalysis)</script>"),
     Page("/weekly-calendar", "Weekly Calendar", "Weekly Calendar - Alphalabs Data Trading",
          "weekly-calendar-root", "/weekly-calendar.jsx",
          "All events auto-updated", "") >>

\* update_page: the new content, the line it prints and the outcome
update_page(c, p) ==
  LET route_start == find(c, route_pattern(p.route_path), 0)
      html_start == find(c, HtmlStartLit, route_start)
      html_end == find(c, HtmlEndLit, html_start)
      new_html == generate_page_template(p.page_name, p.route_path, p.page_title,
                                         p.route_path, p.root_id, p.jsx_file,
                                         p.footer_text, p.extra_scripts)
      new_content == PyUpto(c, html_start) \o <<"const html = ", BT>> \o new_html
                       \o <<BT>> \o PyFrom(c, html_end + Len(HtmlEndLit) - 2)
  IN  IF route_start = -1
        THEN [content |-> c, print |-> <<"Could not find route: ", p.route_path>>,
              status |-> "not-found", html_start |-> -1, html_end |-> -1, calls |-> <<>>]
      ELSE IF html_start = -1
        THEN [content |-> c, print |-> <<"Could not find html template for ", p.route_path>>,
              status |-> "not-found", html_start |-> -1, html_end |-> -1, calls |-> <<>>]
      ELSE IF html_end = -1
        THEN [content |-> c, print |-> <<"Could not find html end for ", p.route_path>>,
              status |-> "not-found", html_start |-> html_start, html_end |-> -1,
              calls |-> <<>>]
      ELSE [content |-> new_content, print |-> <<"Updated ", p.route_path>>,
            status |-> "applied", html_start |-> html_start, html_end |-> html_end,
            calls |-> <<GenCall(p.page_name, p.route_path, p.page_title, p.route_path,
                                p.root_id, p.jsx_file, p.footer_text, p.extra_scripts)>>]

\* one route handler of index.js: route line, template start, body, template end
Handler(route_path, hasStart, hasEnd) ==
  route_pattern(route_path) \o <<"\n  ">>
  \o (IF hasStart THEN HtmlStartLit ELSE <<>>)
  \o <<"OLD">>
  \o (IF hasEnd THEN HtmlEndLit ELSE <<>>)
  \o <<"\n  res.send(html);\n});\n">>

\* a complete handler in a file with \r\n line ends
HandlerCrlf(route_path) ==
  route_pattern(route_path) \o <<"\r\n  ">> \o HtmlStartLit \o <<"OLD">> \o HtmlEndLit
  \o <<"\r\n  res.send(html);\r\n});\r\n">>

PageRoutes == {"/", "/currency-strength", "/cb-speeches", "/weekly-calendar"}

PagesDocs ==
  Docs({Handler(r, v[1], v[2]) :
          r \in PageRoutes, v \in {<<TRUE, TRUE>>, <<FALSE, TRUE>>, <<TRUE, FALSE>>}}
         \cup {HandlerCrlf("/currency-strength")},
       MaxHandlers)

\* content = update_page(content, ...): the step-th call
UpdatePageCall ==
  /\ script = "update_pages"
  /\ pc = "patch"
  /\ step \in 1..Len(Pages)
  /\ LET r == update_page(content, Pages[step])
     IN  /\ content' = r.content
         /\ out' = Append(out, r.print)
         /\ results' = Append(results, Result(Pages[step].route_path, <<"marker">>, r.status))
         /\ start_idx' = r.html_start
         /\ end_idx' = r.html_end
         /\ shells' = shells \o r.calls
  /\ step' = step + 1
  /\ pc' = IF step = Len(Pages) THEN "write" ELSE "patch"
  /\ UNCHANGED <<script, file, writes, run, original, history>>

\* ------------------------------------------------- update_dashboard_v2.py
\* the ten spaces that indent the first line of both literals
IND == "          "

start_marker == <<"<!-- Dashboard Content -->">>
end_marker == <<"</div><!-- end dashboard-content -->">>

old_dashboard == <<IND>> \o start_marker \o <<"old-dashboard-body">> \o end_marker
new_dashboard == <<IND>> \o start_marker \o <<"new-dashboard-body">> \o end_marker

\* old_dashboard as it stands in a file with \r\n line ends
old_dashboard_crlf == <<IND>> \o start_marker \o <<"crlf(old-dashboard-body)">> \o end_marker

V2Docs ==
  Docs({old_dashboard, old_dashboard_crlf, <<IND>>, start_marker, end_marker,
        <<"x">>, <<"\r">>}, MaxBlocks)

\* if old_dashboard in content: content = content.replace(old_dashboard, new_dashboard)
V2Replace ==
  /\ script = "update_dashboard_v2"
  /\ pc = "patch"
  /\ contains(content, old_dashboard)
  /\ content' = replace(content, old_dashboard, new_dashboard)
  /\ out' = Append(out, <<"Dashboard layout updated successfully!">>)
  /\ results' = Append(results, Result("dashboard", <<"exact">>, "applied"))
  /\ pc' = "write"
  /\ UNCHANGED <<shells, script, file, writes, run, step, start_idx, end_idx, original, history>>

\* else: the search by markers
V2Markers ==
  /\ script = "update_dashboard_v2"
  /\ pc = "patch"
  /\ ~contains(content, old_dashboard)
  /\ start_idx' = find(content, start_marker, 0)
  /\ LET e == find(content, end_marker, 0)
     IN  IF start_idx' # -1 /\ e # -1
           THEN /\ end_idx' = e + Len(end_marker)
                /\ content' = PyUpto(content, start_idx') \o new_dashboard
                                \o PyFrom(content, end_idx')
                /\ out' = out \o <<
                     <<"Could not find exact dashboard content to replace. Trying partial match...">>,
                     <<"Dashboard layout updated using markers!">> >>
                /\ results' = Append(results,
                                Result("dashboard", <<"exact", "marker">>, "applied"))
           ELSE /\ end_idx' = e
                /\ content' = content
                /\ out' = out \o <<
                     <<"Could not find exact dashboard content to replace. Trying partial match...">>,
                     <<"ERROR: Could not find dashboard content section">> >>
                /\ results' = Append(results,
                                Result("dashboard", <<"exact", "marker">>, "not-found"))
  /\ pc' = "write"
  /\ UNCHANGED <<shells, script, file, writes, run, step, original, history>>

\* ---------------------------------------------------- update_dashboard.py
\* both literals open with the same two lines
BentoHead == <<"<!-- Dashboard Grid -->", "dashboard-grid">>

old_bento == BentoHead \o <<"old-bento-message", "bento-container", "old-bento-body">>
new_bento == BentoHead \o <<"new-bento-body">>

\* old_bento as it stands in a file with \r\n line ends
old_bento_crlf ==
  <<"crlf(<!-- Dashboard Grid -->)", "dashboard-grid", "crlf(old-bento-message)",
    "bento-container", "crlf(old-bento-body)">>

DashDocs ==
  Docs({old_bento, old_bento_crlf, <<"bento-container">>, <<"dashboard-grid">>,
        <<"x">>, <<"\r\n">>}, MaxBlocks)

\* if old_bento in content: replace, write, report
DashReplace ==
  /\ script = "update_dashboard"
  /\ pc = "patch"
  /\ contains(content, old_bento)
  /\ content' = replace(content, old_bento, new_bento)
  /\ file' = content'
  /\ writes' = writes + 1
  /\ out' = Append(out, <<"Successfully updated bento grid and closing tags">>)
  /\ results' = Append(results, Result("bento", <<"exact">>, "applied"))
  /\ pc' = "done"
  /\ UNCHANGED <<shells, script, run, step, start_idx, end_idx,
                 original, history>>

\* else: report, with the two hints
DashNotFound ==
  /\ script = "update_dashboard"
  /\ pc = "patch"
  /\ ~contains(content, old_bento)
  /\ out' = out \o << <<"Could not find bento pattern">> >>
              \o (IF contains(content, <<"bento-container">>)
                    THEN << <<"Found bento-container">> >> ELSE <<>>)
              \o (IF contains(content, <<"dashboard-grid">>)
                    THEN << <<"Found dashboard-grid">> >> ELSE <<>>)
  /\ results' = Append(results, Result("bento", <<"exact">>, "not-found"))
  /\ pc' = "done"
  /\ UNCHANGED <<shells, script, file, content, writes, run, step, start_idx, end_idx, original, history>>

\* ------------------------------------------------------------ the runs
Scripts == {"remove_next", "update_pages", "update_dashboard_v2", "update_dashboard"}

InputDocs(s) ==
  CASE s = "remove_next" -> NextDocs
    [] s = "update_pages" -> PagesDocs
    [] s = "update_dashboard_v2" -> V2Docs
    [] s = "update_dashboard" -> DashDocs

Init ==
  /\ script \in Scripts
  /\ file \in InputDocs(script)
  /\ content = <<>>
  /\ pc = "read"
  /\ out = <<>>
  /\ writes = 0
  /\ run = 1
  /\ step = 1
  /\ start_idx = -1
  /\ end_idx = -1
  /\ original = file
  /\ results = <<>>
  /\ history = <<>>
  /\ shells = <<>>

\* with open('index.js', 'r', encoding='utf-8') as f: content = f.read()
Read ==
  /\ script # "remove_next"
  /\ pc = "read"
  /\ content' = universal_newlines(file)
  /\ original' = file
  /\ pc' = "patch"
  /\ UNCHANGED <<shells, script, file, out, writes, run, step, start_idx, end_idx, results, history>>

CompileFailsExcising ==
  /\ script = "remove_next"
  /\ pc = "read"
  /\ pc' = "failed"
  /\ file' = IF contains(file, NextAnchor)
               THEN PyUpto(file, find(file, NextAnchor, 0))
               ELSE file
  /\ UNCHANGED <<script, content, out, writes, run, step,
                 start_idx, end_idx, original, results, history, shells>>

\* python remove_next.py: the file does not parse, the run ends with exit
\* status 1 and a SyntaxError on stderr, and nothing of it has run
CompileFails ==
  /\ script = "remove_next"
  /\ pc = "read"
  /\ pc' = "failed"
  /\ UNCHANGED <<script, file, content, out, writes, run, step,
                 start_idx, end_idx, original, results, history, shells>>

\* update_pages.py: the write back after the three calls, and the last print
WritePages ==
  /\ script = "update_pages"
  /\ pc = "write"
  /\ file' = content
  /\ writes' = writes + 1
  /\ out' = Append(out, <<"All pages updated successfully!">>)
  /\ pc' = "done"
  /\ UNCHANGED <<shells, script, content, run, step, start_idx, end_idx, original, results, history>>

\* update_dashboard_v2.py: the write back after either branch, and the last print
WriteV2 ==
  /\ script = "update_dashboard_v2"
  /\ pc = "write"
  /\ file' = content
  /\ writes' = writes + 1
  /\ out' = Append(out, <<"Done!">>)
  /\ pc' = "done"
  /\ UNCHANGED <<shells, script, content, run, step, start_idx, end_idx, original, results, history>>

\* the script is started again on the file it left
Rerun ==
  /\ pc \in {"done", "failed"}
  /\ run < MaxRuns
  /\ run' = run + 1
  /\ history' = Append(history, [input |-> original, output |-> file,
                                 results |-> results, writes |-> writes, out |-> out])
  /\ pc' = "read"
  /\ content' = <<>>
  /\ out' = <<>>
  /\ writes' = 0
  /\ step' = 1
  /\ start_idx' = -1
  /\ end_idx' = -1
  /\ results' = <<>>
  /\ shells' = <<>>
  /\ UNCHANGED <<script, file, original>>

Next ==
  \/ Read
  \/ CompileFails
  \/ UpdatePageCall
  \/ V2Replace
  \/ V2Markers
  \/ DashReplace
  \/ DashNotFound
  \/ WritePages
  \/ WriteV2
  \/ Rerun

Spec == Init /\ [][Next]_vars

\* a started run of remove_next.py goes on without waiting on anything: the
\* interpreter's verdict on the file comes once the script is started
SpecLive == Spec /\ WF_vars(CompileFails)

\* ------------------------------------- generate_page_template on its own
\* the values a descriptor's fields are drawn from
GenNames == {"Currency Strength", "CB Speeches"}
GenPaths == {"/currency-strength"}
GenTitles == {"Currency Strength - Alphalabs", "CB Speeches & Analysis - Alphalabs"}
GenActive == {"/currency-strength", "/cb-speeches", "/settings"}
GenRoots == {"currency-strength-root", "cb-speech-root"}
GenJsx == {"/currency-strength.jsx"}
GenFooters == {"Updated every 4 hours"}
GenExtras == {"", "<script>cbroot.render(CBSpeechAnalysis)</script>"}

GenInit ==
  /\ script = "generate_page_template"
  /\ file = <<>>
  /\ content = <<>>
  /\ pc = "generate"
  /\ out = <<>>
  /\ writes = 0
  /\ run = 1
  /\ step = 1
  /\ start_idx = -1
  /\ end_idx = -1
  /\ original = <<>>
  /\ results = <<>>
  /\ history = <<>>
  /\ shells = <<>>

\* a call of generate_page_template with a descriptor of the sets above; two
\* calls are made, for the two shells that are compared
Generate ==
  /\ script = "generate_page_template"
  /\ pc = "generate"
  /\ Len(shells) < 2
  /\ \E page_name \in GenNames, page_path \in GenPaths, page_title \in GenTitles,
        active_nav \in GenActive, root_id \in GenRoots, jsx_file \in GenJsx,
        footer_text \in GenFooters, extra_scripts \in GenExtras :
       shells' = Append(shells, GenCall(page_name, page_path, page_title, active_nav,
                                        root_id, jsx_file, footer_text, extra_scripts))
  /\ UNCHANGED <<script, file, content, pc, out, writes, run, step, start_idx, end_idx, original, results, history>>

SpecGen == GenInit /\ [][Generate]_vars

\* ------------------------------------------------------------- claims
\* the run has ended, normally or with exit status 1
Ended == pc \in {"done", "failed"}

Applied(rs) == \E k \in 1..Len(rs) : rs[k].status = "applied"

Occurrences(s, pat) == Cardinality({k \in 0..(Len(s) - Len(pat)) : MatchAt(s, pat, k)})

\* C1: the file is written in a run only if some target of that run was
\* patched.
C1_WriteOnlyIfPatched == writes > 0 => Applied(results)

\* C2: when the first run of a substitution script applied its patch, the
\* second run on the first run's output leaves the file as the first run
\* left it.
C2_Idempotent ==
  (/\ script \in {"update_pages", "update_dashboard_v2", "update_dashboard"}
   /\ run = 2
   /\ pc = "done"
   /\ Applied(history[1].results))
  => file = history[1].output

\* the offset where the handler that starts at route line rs ends: the next
\* route line, or the end of the document
HandlerEnd(doc, rs) ==
  LET nxt == {k \in (rs + 1)..(Len(doc) - 1) : doc[k + 1] = "app.get('"}
  IN  IF nxt = {} THEN Len(doc) ELSE Min(nxt)

\* the page's route line is there and its own handler holds a template start
\* followed by a template end
Locatable(doc, p) ==
  LET rs == find(doc, route_pattern(p.route_path), 0)
  IN  /\ rs # -1
      /\ LET hs == find(doc, HtmlStartLit, rs)
         IN  /\ hs # -1
             /\ hs < HandlerEnd(doc, rs)
             /\ LET he == find(doc, HtmlEndLit, hs)
                IN  he # -1 /\ he < HandlerEnd(doc, rs)

\* the text of the page's handler, or nothing when its route line is absent
Region(doc, p) ==
  LET rs == find(doc, route_pattern(p.route_path), 0)
  IN  IF rs = -1 THEN <<>> ELSE PySlice(doc, rs, HandlerEnd(doc, rs))

\* C3: in a batch of update_pages.py where the first and third page are
\* locatable and the second is not, the first and third are patched, the
\* second is reported not-found and its handler is still in the document
\* as it was.
C3_FailureIsolation ==
  (/\ script = "update_pages"
   /\ run = 1
   /\ pc \in {"write", "done"}
   /\ Locatable(original, Pages[1])
   /\ ~Locatable(original, Pages[2])
   /\ Locatable(original, Pages[3]))
  => /\ results[1].status = "applied"
     /\ results[2].status = "not-found"
     /\ results[3].status = "applied"
     /\ contains(content, Region(original, Pages[2]))

\* the span a patch step located in the content it started from
SpanStart ==
  IF script = "update_dashboard" THEN find(content, old_bento, 0) ELSE start_idx'
SpanEnd ==
  CASE script = "update_dashboard" -> find(content, old_bento, 0) + Len(old_bento)
    [] script = "update_pages" -> end_idx' + Len(HtmlEndLit)
    [] OTHER -> end_idx'

PatchStep ==
  /\ Len(results') = Len(results) + 1
  /\ results'[Len(results')].status = "applied"

\* C4: a patch step of update_page, of the marker fallback or of the
\* update_dashboard.py replacement leaves every token before the start of
\* the located span and every token after its end as it was.
C4_NonInterference ==
  [][(/\ PatchStep
      /\ script \in {"update_pages", "update_dashboard_v2", "update_dashboard"}
      /\ results'[Len(results')].modes # <<"exact">> \/ script = "update_dashboard")
     => /\ Len(content') >= SpanStart + (Len(content) - SpanEnd)
        /\ PyUpto(content', SpanStart) = PyUpto(content, SpanStart)
        /\ PyFrom(content', Len(content') - (Len(content) - SpanEnd))
             = PyFrom(content, SpanEnd)]_vars

\* C5: when the literal of an exact replacement, or the anchor of
\* remove_next.py, occurs twice or more, the run changes the span of the first
\* occurrence only: the output is the input with that one span replaced.
C5_FirstOccurrenceWins ==
  /\ (/\ script = "update_dashboard"
      /\ pc = "done"
      /\ Applied(results)
      /\ Occurrences(original, old_bento) >= 2)
     => LET k == find(original, old_bento, 0)
        IN  file = PyUpto(original, k) \o new_bento \o PyFrom(original, k + Len(old_bento))
  /\ (/\ script = "update_dashboard_v2"
      /\ pc = "done"
      /\ Applied(results)
      /\ Occurrences(original, old_dashboard) >= 2)
     => LET k == find(original, old_dashboard, 0)
        IN  file = PyUpto(original, k) \o new_dashboard
                     \o PyFrom(original, k + Len(old_dashboard))
  /\ (/\ script = "remove_next"
      /\ Ended
      /\ Occurrences(original, NextAnchor) >= 2)
     => LET k == find(original, NextAnchor, 0)
        IN  \E e \in (k + 1)..Len(original) :
              file = PyUpto(original, k) \o PyFrom(original, e)

\* C6: when the marker fallback of update_dashboard_v2.py replaces a span, the
\* span starts at the first start marker and ends at the end of the first end
\* marker at or after it, so its start is not after its end.
C6_MarkerSpan ==
  (/\ script = "update_dashboard_v2"
   /\ pc \in {"write", "done"}
   /\ results[1].modes = <<"exact", "marker">>
   /\ results[1].status = "applied")
  => /\ start_idx = find(original, start_marker, 0)
     /\ start_idx <= end_idx
     /\ end_idx = find(original, end_marker, start_idx) + Len(end_marker)

\* C7: marker-pair location of a target is tried only after exact location of
\* that target was tried in the same run.
C7_ExactBeforeMarker ==
  \A k \in 1..Len(results) :
    \A m \in 1..Len(results[k].modes) :
      results[k].modes[m] = "marker"
        => \E n \in 1..(m - 1) : results[k].modes[n] = "exact"

RECURSIVE Depth(_, _, _)
\* the number of "{" less the number of "}" at the offsets a..b of text
Depth(text, a, b) ==
  IF b < a THEN 0
  ELSE Depth(text, a, b - 1)
         + (IF text[b + 1] = "{" THEN 1 ELSE IF text[b + 1] = "}" THEN -1 ELSE 0)

\* the offsets of the close braces at or after offset a that bring the depth
\* counted from a back to zero
ZeroCloses(text, a) ==
  {c \in a..(Len(text) - 1) : text[c + 1] = "}" /\ Depth(text, a, c) = 0}

\* exactly one anchor, and the braces that follow it open before they close
\* and close again: the region runs from the anchor to the close brace that
\* matches the first open brace
WellFormed(text) ==
  /\ Occurrences(text, NextAnchor) = 1
  /\ LET a == find(text, NextAnchor, 0)
     IN  /\ ZeroCloses(text, a) # {}
         /\ \A m \in a..Min(ZeroCloses(text, a)) : Depth(text, a, m) >= 0

RegionClose(text) == Min(ZeroCloses(text, find(text, NextAnchor, 0)))

\* e is the offset just after the first line break at or after offset c, or
\* the end of text when no line break follows
IsLineEnd(text, c, e) ==
  /\ e \in (c + 1)..Len(text)
  /\ \A m \in c..(e - 2) : text[m + 1] # "\n"
  /\ text[e] = "\n" \/ e = Len(text)

\* C8: on a document with one anchor and a well-formed region after it, the
\* output of remove_next.py is the input without the text from the anchor
\* through the region's close brace, and nothing else is removed.
C8_RegionOnly ==
  (script = "remove_next" /\ run = 1 /\ Ended /\ WellFormed(original))
  => file = PyUpto(original, find(original, NextAnchor, 0))
              \o PyFrom(original, RegionClose(original) + 1)

\* C9: when a close brace at or after the anchor returns the depth to zero,
\* the output is the text before the anchor followed by the text from e on,
\* e being the offset just after the first line break at or after the first
\* such close brace (the end of the document when no line break follows).
C9_SpanEnd ==
  (/\ script = "remove_next"
   /\ run = 1
   /\ Ended
   /\ find(original, NextAnchor, 0) # -1
   /\ ZeroCloses(original, find(original, NextAnchor, 0)) # {})
  => LET a == find(original, NextAnchor, 0)
         c == Min(ZeroCloses(original, a))
     IN  \E e \in (c + 1)..Len(original) :
           /\ IsLineEnd(original, c, e)
           /\ file = PyUpto(original, a) \o PyFrom(original, e)

ZeroAfterOpen(text, a) ==
  {p \in a..(Len(text) - 1) :
     /\ Depth(text, a, p) = 0
     /\ \E m \in a..p : text[m + 1] = "{"}

\* C11: remove_next.py fixes the span end at the first offset where the
\* depth, counted from the anchor, is zero after at least one open brace, on
\* every document: the text from the anchor through that offset is out of
\* the file after the run; when there is no such offset nothing is excised.
C11_DepthContract ==
  (/\ script = "remove_next"
   /\ run = 1
   /\ Ended
   /\ find(original, NextAnchor, 0) # -1)
  => LET a == find(original, NextAnchor, 0)
         z == ZeroAfterOpen(original, a)
     IN  IF z = {}
           THEN file = original
           ELSE \E e \in (Min(z) + 1)..Len(original) :
                  file = PyUpto(original, a) \o PyFrom(original, e)

\* the shell update_page generates for page p
ShellOf(p) ==
  generate_page_template(p.page_name, p.route_path, p.page_title, p.route_path,
                         p.root_id, p.jsx_file, p.footer_text, p.extra_scripts)

LastResult == results[Len(results)]

\* C12: after a substitution inserted its replacement, locating it in the
\* new content with the script's own start and end markers gives a span that
\* holds exactly the replacement: new_dashboard for the marker fallback, the
\* generated shell for update_page.
C12_RoundTrip ==
  /\ (/\ script = "update_dashboard_v2"
      /\ pc \in {"write", "done"}
      /\ LastResult.modes = <<"exact", "marker">>
      /\ LastResult.status = "applied")
     => LET s == find(content, start_marker, 0)
            e == find(content, end_marker, 0)
        IN  /\ s # -1
            /\ e # -1
            /\ PySlice(content, s, e + Len(end_marker)) = new_dashboard
  /\ (/\ script = "update_pages"
      /\ results # <<>>
      /\ LastResult.status = "applied")
     => LET p == Pages[Len(results)]
            hs == find(content, HtmlStartLit, find(content, route_pattern(p.route_path), 0))
            he == find(content, HtmlEndLit, hs)
        IN  /\ hs # -1
            /\ he # -1
            /\ PySlice(content, hs + 2, he + 1) = ShellOf(p)

\* the lines the scripts print when a target was not located
NotFoundLines(target) ==
  { <<"Could not find route: ", target>>,
    <<"Could not find html template for ", target>>,
    <<"Could not find html end for ", target>>,
    <<"ERROR: Could not find dashboard content section">>,
    <<"Could not find bento pattern">> }

Printed(lines) == \E k \in 1..Len(out) : out[k] \in lines

\* C13: when a run has ended, every target of it that was not located has a
\* not-found line in the run's output; for remove_next.py, a run on a
\* document without the anchor, or with braces that never balance after it,
\* has printed such a line.
C13_NoSilentFailure ==
  Ended
  => /\ \A k \in 1..Len(results) :
          results[k].status = "not-found" => Printed(NotFoundLines(results[k].target))
     /\ (/\ script = "remove_next"
         /\ \/ find(original, NextAnchor, 0) = -1
            \/ ZeroCloses(original, find(original, NextAnchor, 0)) = {})
        => out # <<>>

\* C14: in update_pages.py and update_dashboard_v2.py the final report of a
\* run says that the targets were updated only if a patch was applied in
\* that run, and a run that patched nothing has reported that nothing was
\* found.
C14_FinalSummary ==
  (script \in {"update_pages", "update_dashboard_v2"} /\ pc = "done")
  => /\ Printed({<<"All pages updated successfully!">>}) => Applied(results)
     /\ ~Applied(results) =>
          \A k \in 1..Len(results) : Printed(NotFoundLines(results[k].target))

\* every line the four scripts can print
StatusLines ==
  UNION {NotFoundLines(Pages[k].route_path) : k \in 1..Len(Pages)}
  \cup {<<"Updated ", Pages[k].route_path>> : k \in 1..Len(Pages)}
  \cup { <<"All pages updated successfully!">>,
         <<"Dashboard layout updated successfully!">>,
         <<"Could not find exact dashboard content to replace. Trying partial match...">>,
         <<"Dashboard layout updated using markers!">>,
         <<"Done!">>,
         <<"Successfully updated bento grid and closing tags">>,
         <<"Found bento-container">>,
         <<"Found dashboard-grid">> }

\* the literal or anchor a run of the script searches first
SearchedLiteral ==
  CASE script = "update_dashboard" -> old_bento
    [] script = "update_dashboard_v2" -> old_dashboard
    [] script = "remove_next" -> NextAnchor
    [] OTHER -> route_pattern(Pages[1].route_path)

\* C15: a run that patched a target whose anchor or literal occurs more than
\* once in the document printed a warning, that is a line besides the status
\* lines.
C15_AmbiguityWarning ==
  (/\ pc = "done"
   /\ Applied(results)
   /\ Occurrences(original, SearchedLiteral) >= 2)
  => \E k \in 1..Len(out) : out[k] \notin StatusLines

\* the navigation region of a shell: what lies between the nav tags
NavOf(text) ==
  PySlice(text, find(text, <<"<nav class=sidebar-nav>">>, 0) + 1, find(text, <<"</nav>">>, 0))

\* the values a call's fields put into its shell
FieldsOf(c) ==
  {c.page_name, c.page_title, c.root_id, c.jsx_file, c.footer_text, c.extra_scripts}

\* the n-th entry of a navigation region is the anchor of NavEntries[n] with
\* the placeholder that compares the request path to its route
EntryIs(nav, n) ==
  LET at(m) == nav[11 * (n - 1) + m]
  IN  /\ at(1) = "<a href="
      /\ at(2) = NavEntries[n][1]
      /\ at(4) = "${req.path === '"
      /\ at(5) = NavEntries[n][1]
      /\ at(6) = "' ? 'active' : ''}"
      /\ at(8) = NavEntries[n][3]
      /\ at(10) = NavEntries[n][2]

\* C16: any two shells generate_page_template returned hold the same
\* navigation entries in the same order, each with its unevaluated
\* placeholder; the shells differ only where a descriptor's field stands, and
\* the active entry is not resolved.
C16_NavConsistency ==
  \A j, k \in 1..Len(shells) :
    LET a == shells[j]
        b == shells[k]
    IN  /\ NavOf(a.text) = NavOf(b.text)
        /\ Len(NavOf(a.text)) = 11 * Len(NavEntries)
        /\ \A n \in 1..Len(NavEntries) : EntryIs(NavOf(a.text), n)
        /\ \A m \in 1..Len(NavOf(a.text)) : NavOf(a.text)[m] # "active"
        /\ Len(a.text) = Len(b.text)
        /\ \A m \in 1..Len(a.text) :
             a.text[m] # b.text[m] => a.text[m] \in FieldsOf(a) /\ b.text[m] \in FieldsOf(b)

C16_Witness ==
  /\ script = "generate_page_template"
  /\ Len(shells) = 2
  /\ shells[1].active_nav = "/currency-strength"
  /\ shells[2].active_nav = "/cb-speeches"
  /\ shells[1].page_name # shells[2].page_name
  /\ shells[1].text # shells[2].text

\* C17: every run of remove_next.py ends, having made at most one excision
\* and exactly one write of index.js: from its start the run reaches the
\* state where it has written once, it never writes twice, and the file
\* differs from the input by at most one span cut out of it.
C17_Termination ==
  /\ (script = "remove_next" /\ pc = "read")
       ~> (script = "remove_next" /\ Ended /\ writes = 1)
  /\ [](script = "remove_next" =>
         /\ writes <= 1
         /\ \E a \in 0..Len(original), e \in 0..Len(original) :
              a <= e /\ file = PyUpto(original, a) \o PyFrom(original, e))

\* the number of backquotes that stand between a template end and its ";"
RECURSIVE ClosersBefore(_, _)
ClosersBefore(doc, k) ==
  IF k >= 1 /\ doc[k] = BT THEN 1 + ClosersBefore(doc, k - 1) ELSE 0

\* C18: a call of update_page that patches its route turns the document into
\* the text before the old template start, the opening of the template, the
\* generated shell, one backquote and ";", and the text that followed the old
\* template end; no template of the document is closed by more than one
\* backquote, however many times the script has run.
C18_TerminatorPreserved ==
  [][(script = "update_pages" /\ PatchStep)
     => /\ content' = PyUpto(content, start_idx') \o <<"const html = ", BT>>
                        \o ShellOf(Pages[step]) \o <<BT, SC>>
                        \o PyFrom(content, end_idx' + Len(HtmlEndLit))
        /\ \A k \in 1..Len(content') :
             (content'[k] = SC /\ k > 1 /\ content'[k - 1] = BT)
               => ClosersBefore(content', k - 1) = 1]_vars

\* the offsets of the route lines of other handlers that lie in the text
\* from the route line of page p up to the template end the step located
ForeignRoutes(doc, p, he) ==
  LET rs == find(doc, route_pattern(p.route_path), 0)
  IN  {k \in (rs + 1)..(he - 1) : k < Len(doc) /\ doc[k + 1] = "app.get('"}

\* the templates of the handlers of other routes than r, in document order
RECURSIVE OtherTemplates(_, _, _)
OtherTemplates(doc, r, k) ==
  IF k >= Len(doc) THEN <<>>
  ELSE IF doc[k + 1] = "app.get('" /\ k + 1 < Len(doc) /\ doc[k + 2] # r
    THEN LET hs == find(doc, HtmlStartLit, k)
             he == find(doc, HtmlEndLit, hs)
         IN  IF hs # -1 /\ hs < HandlerEnd(doc, k) /\ he # -1 /\ he < HandlerEnd(doc, k)
               THEN <<PySlice(doc, hs, he + Len(HtmlEndLit))>> \o OtherTemplates(doc, r, k + 1)
               ELSE OtherTemplates(doc, r, k + 1)
  ELSE OtherTemplates(doc, r, k + 1)

\* C19: in every call of update_page, first run or re-run, a span that is
\* replaced lies inside the handler of the call's own route (no route line of
\* another handler stands between the route line and the located template
\* end); a route whose handler holds no template start or no template end
\* is reported not-found; and the templates of the other routes are after
\* the call what they were before it.
C19_RouteBounded ==
  [][(/\ script = "update_pages"
      /\ Len(results') = Len(results) + 1)
     => /\ PatchStep => ForeignRoutes(content, Pages[step], end_idx') = {}
        /\ ~Locatable(content, Pages[step])
             => results'[Len(results')].status = "not-found"
        /\ OtherTemplates(content', Pages[step].route_path, 0)
             = OtherTemplates(content, Pages[step].route_path, 0)]_vars
====
